---- MODULE Spec2Model ----
(***************************************************************************)
(* Model of snake_game/src/main.rs: the Snake (body, direction, buffered   *)
(* direction), the Game (snake, food, score, game_over, board size, frame  *)
(* timing) and the run loop that drains key events and steps the game.     *)
(***************************************************************************)
EXTENDS FiniteSets, Integers, Naturals, Sequences, TLC

VARIABLES
    game,      \* the Game struct: snake, food, score, game_over, width, height
    elapsed,   \* now.duration_since(game.last_update) at the last clock reading, in ms
    pc,        \* position of main: "running" (inside Game::run), "game_over", "exited", "panicked";
               \* of a direct caller of Snake: "snake", "snake_done"; of Game: "game", "game_done"
    requests,  \* history: the directions requested since the snake last moved
    last       \* history: the last call other than a key press that is no quit, with
               \* its arguments and, for a direct call, the game or the board it was made on

vars == <<game, elapsed, pc, requests, last>>

(***************************************************************************)
(* Bounds of the model.                                                    *)
(***************************************************************************)
\* the score at which the model stops feeding the snake
MaxScore == 1
\* how many values around the middle of its range a gen_range call may return
RngSpread == 1
\* the longest list of direction requests recorded between two advances
MaxRequests == 2
\* the longest snake a direct call is made on
MaxBody == 5
\* the width of the corner boxes the snakes of direct calls lie in (their height is one more)
UnitBox == 2
\* the resolution of the model's clock, in ms
ClockStep == 75
MaxFree == 2

(***************************************************************************)
(* Program constants.                                                      *)
(***************************************************************************)
U16 == 65536
MinWidth == 20
MinHeight == 10
FrameMillis == 150
SleepMillis == 5
GameOverTextLen == 9
FinalScoreTextLen == 13
RestartTextLen == 35

None == "None"
Direction == {"Up", "Down", "Left", "Right"}

Point(px, py) == [x |-> px, y |-> py]

\* Direction::opposite
opposite(d) ==
    CASE d = "Up" -> "Down"
      [] d = "Down" -> "Up"
      [] d = "Left" -> "Right"
      [] d = "Right" -> "Left"

\* u16::saturating_sub
saturating_sub(v, n) == IF v < n THEN 0 ELSE v - n

\* u16 addition as a release build does it, wrapping at 2^16
add_u16(v, n) == (v + n) % U16

\* u16 addition overflows: a debug build panics here. It takes a coordinate of
\* 2^16 - 1, which no snake of the program has
add_overflows(v, n) == v + n >= U16

\* u16 subtraction; a release build wraps at 2^16
sub_u16(v, n) == (v - n + U16) % U16

\* u16 subtraction overflows: a debug build panics here
sub_overflows(v, n) == v < n

\* u16::max
max(a, b) == IF a >= b THEN a ELSE b

\* VecDeque::contains
contains(body, p) == \E i \in 1..Len(body) : body[i] = p

\* VecDeque::push_front
push_front(body, p) == <<p>> \o body

\* VecDeque::pop_back
pop_back(body) == SubSeq(body, 1, Len(body) - 1)

(***************************************************************************)
(* Snake                                                                   *)
(***************************************************************************)
\* a starting snake with the two halves exchanged
Snake_new_swapped(width, height) ==
    [body |-> <<Point(height \div 2, width \div 2)>>,
     direction |-> "Right",
     next_direction |-> None]

\* Snake::new
Snake_new(width, height) ==
    [body |-> <<Point(width \div 2, height \div 2)>>,
     direction |-> "Right",
     next_direction |-> None]

\* the direction in effect after the pending change is applied
apply_pending(snake) ==
    IF snake.next_direction # None THEN snake.next_direction ELSE snake.direction

\* the match in Snake::move_forward
new_head_of(head, direction) ==
    CASE direction = "Up" -> Point(head.x, saturating_sub(head.y, 1))
      [] direction = "Down" -> Point(head.x, add_u16(head.y, 1))
      [] direction = "Left" -> Point(saturating_sub(head.x, 1), head.y)
      [] direction = "Right" -> Point(add_u16(head.x, 1), head.y)

\* the increment in the match of Snake::move_forward overflows
move_forward_overflows(snake) ==
    LET dir == apply_pending(snake)
        head == Head(snake.body)
    IN \/ dir = "Down" /\ add_overflows(head.y, 1)
       \/ dir = "Right" /\ add_overflows(head.x, 1)

\* a move_forward that drops the tail when food was eaten and keeps it otherwise
grow_or_slide_swapped(body, ate_food) == IF ate_food THEN pop_back(body) ELSE body

\* the tail handling of Snake::move_forward
grow_or_slide(body, ate_food) == IF ate_food THEN body ELSE pop_back(body)

\* Snake::move_forward
move_forward(snake, ate_food) ==
    LET dir == apply_pending(snake)
        new_head == new_head_of(Head(snake.body), dir)
    IN [body |-> grow_or_slide(push_front(snake.body, new_head), ate_food),
        direction |-> dir,
        next_direction |-> None]

\* a guard that compares with the direction itself, not with its opposite
accepts_unless_same(snake, new_direction) == snake.direction # new_direction

\* a guard that validates against the buffered direction when there is one
accepts_against_buffer(snake, new_direction) ==
    apply_pending(snake) # opposite(new_direction)

\* the guard of Snake::change_direction
accepts(snake, new_direction) == snake.direction # opposite(new_direction)

\* Snake::change_direction
change_direction(snake, new_direction) ==
    IF accepts(snake, new_direction)
    THEN [snake EXCEPT !.next_direction = new_direction]
    ELSE snake

\* a self-collision test that does not skip the head
has_collided_with_any(snake) ==
    \E i \in 1..Len(snake.body) : snake.body[i] = Head(snake.body)

\* a self-collision test that also leaves out the last segment
has_collided_before_tail(snake) ==
    \E i \in 2..(Len(snake.body) - 1) : snake.body[i] = Head(snake.body)

\* Snake::has_collided_with_self
has_collided_with_self(snake) ==
    \E i \in 2..Len(snake.body) : snake.body[i] = Head(snake.body)

(***************************************************************************)
(* Game                                                                    *)
(***************************************************************************)
\* a gen_range over lo..=hi, the upper end included
gen_range_inclusive(lo, hi) ==
    {v \in lo..hi :
        \/ v = lo
        \/ v = hi
        \/ (v >= (lo + hi) \div 2 /\ v < (lo + hi) \div 2 + RngSpread)}

\* rng.gen_range(lo..hi): the values lo..hi-1, of which the model draws the two
\* ends and RngSpread values from the middle on
gen_range(lo, hi) ==
    {v \in lo..(hi - 1) :
        \/ v = lo
        \/ v = hi - 1
        \/ (v >= (lo + hi) \div 2 /\ v < (lo + hi) \div 2 + RngSpread)}

\* the points one pass of the loop in Game::place_food can sample
food_samples(width, height) ==
    {Point(px, py) : px \in gen_range(1, sub_u16(width, 1)),
                     py \in gen_range(1, sub_u16(height, 1))}

\* a place_food that takes its first sample, on the snake or not
place_food_unchecked(width, height, body) == food_samples(width, height)

\* Game::place_food: the points the loop can break with
place_food(width, height, body) ==
    {p \in food_samples(width, height) : ~contains(body, p)}

\* the board Game::new computes from the display size
board_width(w) == max(w, MinWidth)
board_height(h) == max(sub_u16(h, 1), MinHeight)

\* an end-of-step test whose right and bottom edges are one cell too far in
is_game_over_early(snake, width, height) ==
    LET new_head == Head(snake.body)
    IN \/ new_head.x = 0
       \/ new_head.x = width - 2
       \/ new_head.y = 0
       \/ new_head.y = height - 2
       \/ has_collided_with_self(snake)

\* an end-of-step test without the left edge
is_game_over_no_left(snake, width, height) ==
    LET new_head == Head(snake.body)
    IN \/ new_head.x = width - 1
       \/ new_head.y = 0
       \/ new_head.y = height - 1
       \/ has_collided_with_self(snake)

\* the end-of-step test of Game::update_game
is_game_over(snake, width, height) ==
    LET new_head == Head(snake.body)
    IN \/ new_head.x = 0
       \/ new_head.x = width - 1
       \/ new_head.y = 0
       \/ new_head.y = height - 1
       \/ has_collided_with_self(snake)

\* the game Game::new and Game::reset build, with the food place_food chose
fresh_game(width, height, food) ==
    [snake |-> Snake_new(width, height),
     food |-> food,
     score |-> 0,
     game_over |-> FALSE,
     width |-> width,
     height |-> height]

\* an update_game that assigns the result of the test to game_over
update_game_assigning(g, new_food) ==
    LET ate_food == Head(g.snake.body) = g.food
        snake == move_forward(g.snake, ate_food)
    IN [g EXCEPT !.snake = snake,
                 !.score = IF ate_food THEN g.score + 1 ELSE g.score,
                 !.food = IF ate_food THEN new_food ELSE g.food,
                 !.game_over = is_game_over(snake, g.width, g.height)]

\* Game::update_game, with the food place_food chooses if it is called
update_game(g, new_food) ==
    LET ate_food == Head(g.snake.body) = g.food
        snake == move_forward(g.snake, ate_food)
    IN [g EXCEPT !.snake = snake,
                 !.score = IF ate_food THEN g.score + 1 ELSE g.score,
                 !.food = IF ate_food THEN new_food ELSE g.food,
                 !.game_over = IF is_game_over(snake, g.width, g.height)
                               THEN TRUE ELSE g.game_over]

\* an update_game that places the food before the snake has advanced
food_before_step(g) ==
    IF Head(g.snake.body) = g.food
    THEN place_food(g.width, g.height, g.snake.body)
    ELSE {g.food}

\* the foods update_game can end with
food_after_step(g) ==
    IF Head(g.snake.body) = g.food
    THEN place_food(g.width, g.height, move_forward(g.snake, TRUE).body)
    ELSE {g.food}

(***************************************************************************)
(* The program: main, Game::run, Game::handle_input                        *)
(***************************************************************************)
\* the display sizes size() reports to Game::new
display_sizes == {<<w, h>> : w \in {MinWidth - 1, MinWidth}, h \in {MinHeight, MinHeight + 1}}

\* the games Game::new can return for a display of w columns and h rows
Game_new(w, h) ==
    {fresh_game(board_width(w), board_height(h), f) :
        f \in place_food(board_width(w), board_height(h),
                         Snake_new(board_width(w), board_height(h)).body)}

\* how long one pass of the loop in Game::run can take, in ms
pass_durations == {d \in {ClockStep, 2 * ClockStep, 6 * ClockStep} : d >= SleepMillis}

\* the frame test of Game::run
frame_due(since) == since >= FrameMillis

\* the while condition of Game::run, read after the sleep
after_pass(g) == IF g.game_over THEN "game_over" ELSE "running"

Init ==
    /\ game \in UNION {Game_new(s[1], s[2]) : s \in display_sizes}
    /\ elapsed = 0
    /\ pc = "running"
    /\ requests = <<>>
    /\ last = <<"new">>

\* handle_input reads a direction key
KeyDirection(d) ==
    /\ pc = "running"
    /\ game' = [game EXCEPT !.snake = change_direction(game.snake, d)]
    /\ UNCHANGED <<elapsed, pc, requests, last>>

\* handle_input reads 'q' or Esc
KeyQuit ==
    /\ pc = "running"
    /\ game' = [game EXCEPT !.game_over = TRUE]
    /\ last' = <<"quit">>
    /\ UNCHANGED <<elapsed, pc, requests>>

\* handle_input reads any other event
KeyOther ==
    /\ pc = "running"
    /\ UNCHANGED <<game, elapsed, pc, requests, last>>

\* a last_update that is advanced by one frame instead of being set to now
restarted_by_frame(since) == since - FrameMillis

\* now - last_update once the pass has assigned last_update = now
restarted(since) == 0

\* the rest of a pass of Game::run when the frame is due: update_game, draw, sleep
frame_step(dt) ==
    /\ pc = "running"
    /\ frame_due(elapsed + dt)
    /\ (Head(game.snake.body) = game.food) => game.score < MaxScore
    /\ \E f \in food_after_step(game) : game' = update_game(game, f)
    /\ elapsed' = restarted(elapsed + dt)
    /\ pc' = after_pass(game')
    /\ UNCHANGED requests

\* the rest of a pass of Game::run when the frame is not due: sleep
frame_idle(dt) ==
    /\ pc = "running"
    /\ ~frame_due(elapsed + dt)
    /\ elapsed' = elapsed + dt
    /\ pc' = after_pass(game)
    /\ UNCHANGED <<game, requests>>

\* a pass that steps, remembered with whether the snake ate
PassStep(dt) ==
    /\ frame_step(dt)
    /\ last' = <<"step", Head(game.snake.body) = game.food>>

\* a pass that does not step
PassIdle(dt) ==
    /\ frame_idle(dt)
    /\ last' = <<"idle">>

\* the number of decimal digits format! prints for n
RECURSIVE digits(_)
digits(n) == IF n < 10 THEN 1 ELSE 1 + digits(n \div 10)

\* one of the u16 subtractions that place the texts of Game::show_game_over
\* overflows
show_game_over_overflows(g) ==
    LET center_x == g.width \div 2
    IN \/ sub_overflows(g.height \div 2, 2)
       \/ sub_overflows(center_x, GameOverTextLen \div 2)
       \/ sub_overflows(center_x, (FinalScoreTextLen + digits(g.score)) \div 2)
       \/ sub_overflows(center_x, RestartTextLen \div 2)

\* Game::run has left its loop and calls show_game_over in a build with overflow
\* checks, on a board too narrow for its texts: the call panics, main ends
ShowGameOverPanics ==
    /\ pc = "game_over"
    /\ show_game_over_overflows(game)
    /\ pc' = "panicked"
    /\ last' = <<"panic">>
    /\ UNCHANGED <<game, elapsed, requests>>

\* Game::reset, called on the game that has ended to play it again
Reset ==
    /\ pc = "game_over"
    /\ \E f \in place_food(game.width, game.height,
                            Snake_new(game.width, game.height).body) :
          game' = fresh_game(game.width, game.height, f)
    /\ elapsed' = 0
    /\ pc' = "running"
    /\ last' = <<"reset">>
    /\ UNCHANGED requests

\* show_game_over has returned (its columns in range, or wrapped by a build without
\* overflow checks) and main restarts: a new Game replaces the one that ended
Restart ==
    /\ pc = "game_over"
    /\ game' \in UNION {Game_new(s[1], s[2]) : s \in display_sizes}
    /\ elapsed' = 0
    /\ pc' = "running"
    /\ last' = <<"new">>
    /\ UNCHANGED requests

\* show_game_over has returned and main leaves its loop
Exit ==
    /\ pc = "game_over"
    /\ pc' = "exited"
    /\ last' = <<"exit">>
    /\ UNCHANGED <<game, elapsed, requests>>

Next ==
    \/ \E d \in Direction : KeyDirection(d)
    \/ KeyQuit
    \/ KeyOther
    \/ \E dt \in pass_durations : PassStep(dt)
    \/ \E dt \in pass_durations : PassIdle(dt)
    \/ Reset
    \/ Restart
    \/ Exit
    \/ ShowGameOverPanics

Spec == Init /\ [][Next]_vars

(***************************************************************************)
(* The frame timing of Game::run, for a player who presses no key          *)
(***************************************************************************)
\* the time since the last step, construction or reset, measured outside the
\* game; the passes below remember it next to the value the loop computes
waited == IF last[1] = "idle" THEN last[3] ELSE 0

\* a pass that steps, remembered with now - last_update as the loop read it
TimedStep(dt) ==
    /\ frame_step(dt)
    /\ last' = <<"step", Head(game.snake.body) = game.food, elapsed + dt, waited + dt>>

\* a pass that does not step, remembered the same way
TimedIdle(dt) ==
    /\ frame_idle(dt)
    /\ last' = <<"idle", elapsed + dt, waited + dt>>

NextTimed ==
    \/ \E dt \in pass_durations : TimedStep(dt)
    \/ \E dt \in pass_durations : TimedIdle(dt)
    \/ Reset
    \/ Restart
    \/ ShowGameOverPanics

SpecTimed == Init /\ [][NextTimed]_vars

(***************************************************************************)
(* Games a direct call can be made on: snakes of up to MaxBody segments    *)
(* curled up in a corner box of the board, and the snakes of the scenarios.*)
(***************************************************************************)
\* the display sizes of the boards of direct calls: boards of 20x15 and 21x10
unit_sizes == {<<MinWidth, MinHeight + 6>>, <<MinWidth + 1, MinHeight>>}

\* the cells of the two corner boxes inside the border of a board
box_cells(width, height) ==
    {Point(px, py) : px \in 1..UnitBox, py \in 1..(UnitBox + 1)}
    \cup {Point(px, py) : px \in (width - 1 - UnitBox)..(width - 2),
                          py \in (height - 2 - UnitBox)..(height - 2)}

\* the cells of the border ring next to a box
ring_cells(width, height) ==
    {Point(px, py) : px \in {0, width - 1}, py \in 1..(height - 2)}
    \cup {Point(px, py) : px \in 1..(width - 2), py \in {0, height - 1}}

adjacent(p, q) ==
    \/ (p.x = q.x /\ (p.y = q.y + 1 \/ q.y = p.y + 1))
    \/ (p.y = q.y /\ (p.x = q.x + 1 \/ q.x = p.x + 1))

\* the direction of a move from cell p to the adjacent cell q
heading(p, q) ==
    CASE q.y < p.y -> "Up"
      [] q.y > p.y -> "Down"
      [] q.x < p.x -> "Left"
      [] q.x > p.x -> "Right"

\* the bodies of n segments, head first, that a snake moving inside cells can have
RECURSIVE walks(_, _)
walks(cells, n) ==
    IF n = 1 THEN {<<p>> : p \in cells}
    ELSE UNION {{push_front(b, q) :
                    q \in {c \in cells : adjacent(c, Head(b)) /\ ~contains(b, c)}} :
                b \in walks(cells, n - 1)}

\* the bodies of at most MaxBody segments inside the boxes of a board
box_bodies(width, height) ==
    UNION {walks(box_cells(width, height), n) : n \in 1..MaxBody}

\* the same after one more move, which took the head onto the border ring
ring_bodies(width, height) ==
    UNION {{pop_back(push_front(b, q)) :
               q \in {c \in ring_cells(width, height) : adjacent(c, Head(b))}} :
           b \in box_bodies(width, height)}

\* the bodies of the scenarios of the specification, on its board of 20x15
scenario_bodies(width, height) ==
    IF width = 20 /\ height = 15
    THEN {<<Point(10, 7)>>, <<Point(7, 7)>>, <<Point(18, 7)>>,
          <<Point(5, 5), Point(4, 5), Point(3, 5)>>}
    ELSE {}

\* the snakes with these bodies, between two moves: a snake of two segments or more
\* last moved from its neck to its head, a head on the ring came from inside
snakes_with(bodies, width, height) ==
    {sn \in [body : bodies, direction : Direction, next_direction : {None}] :
        LET h == Head(sn.body) IN
        /\ Len(sn.body) >= 2 /\ adjacent(sn.body[2], h) => sn.direction = heading(sn.body[2], h)
        /\ h.x = 0 => sn.direction = "Left"
        /\ h.x = width - 1 => sn.direction = "Right"
        /\ h.y = 0 => sn.direction = "Up"
        /\ h.y = height - 1 => sn.direction = "Down"}

\* a game with this snake: one segment per point scored, the food off the snake
game_with(sn, width, height, food, over) ==
    [snake |-> sn, food |-> food, score |-> Len(sn.body) - 1, game_over |-> over,
     width |-> width, height |-> height]

\* a food of the board that is not on the body
some_food(width, height, body) == CHOOSE f \in place_food(width, height, body) : TRUE

(***************************************************************************)
(* Direct calls of Snake::change_direction and Snake::move_forward         *)
(***************************************************************************)
\* the snakes the calls are made on: inside a box, or with the head on the ring
unit_snakes(width, height) ==
    snakes_with(box_bodies(width, height) \cup ring_bodies(width, height)
                    \cup scenario_bodies(width, height), width, height)

on_ring(p, width, height) ==
    p.x = 0 \/ p.x = width - 1 \/ p.y = 0 \/ p.y = height - 1

InitSnake ==
    /\ \E s \in {<<MinWidth, MinHeight + 6>>} :
         LET width == board_width(s[1])
             height == board_height(s[2])
         IN game \in {game_with(sn, width, height, some_food(width, height, sn.body),
                                on_ring(Head(sn.body), width, height)) :
                         sn \in unit_snakes(width, height)}
    /\ elapsed = 0
    /\ pc = "snake"
    /\ requests = <<>>
    /\ last = <<"init">>

\* Snake::change_direction(d)
Request(d) ==
    /\ pc = "snake"
    /\ Len(requests) < MaxRequests
    /\ game' = [game EXCEPT !.snake = change_direction(game.snake, d)]
    /\ requests' = Append(requests, d)
    /\ last' = <<"request", d, game>>
    /\ UNCHANGED <<elapsed, pc>>

\* Snake::move_forward(ate_food)
Advance(ate_food) ==
    /\ pc = "snake"
    /\ game' = [game EXCEPT !.snake = move_forward(game.snake, ate_food)]
    /\ requests' = <<>>
    /\ last' = <<"advance", ate_food, game, requests>>
    /\ pc' = "snake_done"
    /\ UNCHANGED elapsed

NextSnake ==
    \/ \E d \in Direction : Request(d)
    \/ \E ate_food \in BOOLEAN : Advance(ate_food)

SpecSnake == InitSnake /\ [][NextSnake]_vars

(***************************************************************************)
(* Direct calls of Game::update_game, Game::reset and Game::new            *)
(***************************************************************************)
\* the directions change_direction can have left in the buffer
buffers(sn) == {None} \cup {d \in Direction : sn.direction # opposite(d)}

\* the games a running loop can call update_game on: the snake inside the border,
\* the food on its head or off it, game_over set if a quit was read in this pass
unit_games(width, height) ==
    {g \in {game_with([sn EXCEPT !.next_direction = nd], width, height,
                      IF on_food THEN Head(sn.body)
                      ELSE some_food(width, height, sn.body), over) :
                nd \in Direction \cup {None},
                on_food \in BOOLEAN,
                over \in BOOLEAN,
                sn \in snakes_with(box_bodies(width, height)
                                      \cup scenario_bodies(width, height), width, height)} :
        g.snake.next_direction \in buffers(g.snake)}

InitGame ==
    /\ \E s \in unit_sizes : game \in unit_games(board_width(s[1]), board_height(s[2]))
    /\ elapsed = 0
    /\ pc = "game"
    /\ requests = <<>>
    /\ last = <<"init">>

\* Game::update_game
UnitUpdate ==
    /\ pc = "game"
    /\ \E f \in food_after_step(game) : game' = update_game(game, f)
    /\ last' = <<"update", game>>
    /\ pc' = "game_done"
    /\ UNCHANGED <<elapsed, requests>>

\* Game::reset
UnitReset ==
    /\ pc = "game"
    /\ \E f \in place_food(game.width, game.height,
                            Snake_new(game.width, game.height).body) :
          game' = fresh_game(game.width, game.height, f)
    /\ elapsed' = 0
    /\ last' = <<"reset", game.width, game.height,
                 game.score, game.game_over, game.snake.next_direction>>
    /\ pc' = "game_done"
    /\ UNCHANGED requests

\* Game::new, for a display of w columns and h rows
UnitNew(w, h) ==
    /\ pc = "game"
    /\ game' \in Game_new(w, h)
    /\ elapsed' = 0
    /\ last' = <<"new", w, h>>
    /\ pc' = "game_done"
    /\ UNCHANGED requests

NextGame ==
    \/ UnitUpdate
    \/ UnitReset
    \/ \E s \in unit_sizes : UnitNew(s[1], s[2])

SpecGame == InitGame /\ [][NextGame]_vars

(***************************************************************************)
(* Game::new on displays of any size                                       *)
(***************************************************************************)
\* the display sizes size() can report: none, small, usual and the largest
new_sizes ==
    {<<w, h>> : w \in {0, MinWidth - 1, MinWidth, MinWidth + 1, U16 - 1},
                h \in {0, 1, MinHeight, MinHeight + 1, MinHeight + 2, U16 - 1}}

\* main is about to call Game::new; the game of the previous round is still there
InitNew ==
    /\ game \in UNION {Game_new(s[1], s[2]) : s \in display_sizes}
    /\ elapsed = 0
    /\ pc = "game"
    /\ requests = <<>>
    /\ last = <<"init">>

\* Game::new in a build with overflow checks, for a display of no rows: height - 1
\* panics and no game is made
UnitNewPanics(w, h) ==
    /\ pc = "game"
    /\ sub_overflows(h, 1)
    /\ pc' = "panicked"
    /\ last' = <<"new_panic", w, h>>
    /\ UNCHANGED <<game, elapsed, requests>>

NextNew ==
    \/ \E s \in new_sizes : UnitNew(s[1], s[2])
    \/ \E s \in new_sizes : UnitNewPanics(s[1], s[2])

SpecNew == InitNew /\ [][NextNew]_vars

(***************************************************************************)
(* The sampling loop of Game::place_food, one pass at a time                *)
(***************************************************************************)
\* every point the two gen_range calls of one pass can produce
food_range(width, height) ==
    {Point(px, py) : px \in 1..(sub_u16(width, 1) - 1),
                     py \in 1..(sub_u16(height, 1) - 1)}

\* a test that lets every sample pass
free_for_food_always(body, p) == TRUE

\* the test that ends the loop: the sample is not on the snake
free_for_food(body, p) == ~contains(body, p)

\* a snake of n segments that has filled the board row by row from the top left
\* corner, turning at the end of each row
serpentine(width, height, n) ==
    LET cols == width - 2
        cell(k) == Point(IF (k \div cols) % 2 = 0 THEN 1 + (k % cols)
                         ELSE cols - (k % cols),
                         1 + (k \div cols))
    IN [i \in 1..n |-> cell(n - i)]

\* the bodies place_food is called with: the snake of a new game, and snakes that
\* leave no cell or a few cells free
food_bodies(width, height) ==
    {Snake_new(width, height).body}
    \cup {serpentine(width, height, (width - 2) * (height - 2) - k) : k \in 0..MaxFree}

\* the state place_food is entered in: a new game, or a step that has just eaten
InitFood ==
    /\ \E s \in display_sizes :
          \E b \in food_bodies(board_width(s[1]), board_height(s[2])) :
             game = game_with([body |-> b,
                               direction |-> IF Len(b) = 1 THEN "Right"
                                             ELSE heading(b[2], b[1]),
                               next_direction |-> None],
                              board_width(s[1]), board_height(s[2]),
                              IF Len(b) = 1 THEN Point(0, 0) ELSE b[2], FALSE)
    /\ elapsed = 0
    /\ pc = "placing"
    /\ requests = <<>>
    /\ last = <<"init">>

\* a pass of the loop whose sample is off the snake: the food is set, the loop ends
SampleTaken(p) ==
    /\ pc = "placing"
    /\ free_for_food(game.snake.body, p)
    /\ game' = [game EXCEPT !.food = p]
    /\ pc' = "placed"
    /\ last' = <<"sample", p>>
    /\ UNCHANGED <<elapsed, requests>>

\* a pass of the loop whose sample is on the snake: the loop goes round again
SampleRejected(p) ==
    /\ pc = "placing"
    /\ ~free_for_food(game.snake.body, p)
    /\ last' = <<"rejected">>
    /\ UNCHANGED <<game, elapsed, pc, requests>>

\* some pass ends the loop
SampleTakenAny == \E p \in food_range(game.width, game.height) : SampleTaken(p)

NextFood ==
    \/ SampleTakenAny
    \/ \E p \in food_range(game.width, game.height) : SampleRejected(p)

\* the loop breaks
FoodReturns == pc' = "placed" /\ SampleTakenAny

\* the generator is uniform over the range: a loop that keeps sampling while a free
\* point exists does not miss the free points for ever
SpecFood == InitFood /\ [][NextFood]_vars /\ WF_vars(FoodReturns)

(***************************************************************************)
(* What the specification says of a move, written without the model's      *)
(* definitions of it.                                                      *)
(***************************************************************************)
\* a and b are opposite directions
reverse(a, b) == {a, b} \in {{"Up", "Down"}, {"Left", "Right"}}

\* p shifted one unit in direction d, a decrement at 0 staying at 0
shifted(p, d) ==
    [x |-> IF d = "Left" THEN (IF p.x = 0 THEN 0 ELSE p.x - 1)
           ELSE IF d = "Right" THEN p.x + 1 ELSE p.x,
     y |-> IF d = "Up" THEN (IF p.y = 0 THEN 0 ELSE p.y - 1)
           ELSE IF d = "Down" THEN p.y + 1 ELSE p.y]

\* the direction a snake moves in at its next advance
effective(sn) == IF sn.next_direction = None THEN sn.direction ELSE sn.next_direction

\* all but the last element
front(q) == SubSeq(q, 1, Len(q) - 1)

\* the head is on the border ring of the board or on another segment of the body
hit(g) ==
    LET h == g.snake.body[1]
    IN \/ h.x = 0 \/ h.x = g.width - 1 \/ h.y = 0 \/ h.y = g.height - 1
       \/ \E i \in 2..Len(g.snake.body) : g.snake.body[i] = h

\* the food is strictly inside the border of the board
inside(f, g) == 1 <= f.x /\ f.x <= g.width - 2 /\ 1 <= f.y /\ f.y <= g.height - 2

\* C1 as the specification states it: in every reachable state the food is on no
\* point of the body.
C1_FoodNeverOnBody ==
    \A i \in 1..Len(game.snake.body) : game.snake.body[i] # game.food

\* C1, amended: in every reachable state the food is on no point of the body other
\* than the head.
C1_FoodNeverBehindHead ==
    \A i \in 2..Len(game.snake.body) : game.snake.body[i] # game.food

\* C1 witness: a snake of two segments whose head a step has moved onto the food
C1_Witness ==
    /\ pc = "running"
    /\ Len(game.snake.body) >= 2
    /\ game.snake.body[1] = game.food
    /\ last = <<"step", FALSE>>

\* C2: when place_food has returned, at construction, at reset or in a step that
\* ate food, the food is not on the body and 1 <= x <= width-2, 1 <= y <= height-2.
C2_PlacedFood ==
    (\/ last[1] \in {"new", "reset"}
     \/ (last[1] = "update" /\ last[2].snake.body[1] = last[2].food))
    => /\ \A i \in 1..Len(game.snake.body) : game.snake.body[i] # game.food
       /\ inside(game.food, game)

\* C2 witness: a step ate food, and the grown body lies on a cell at the end of
\* both sampled ranges, which place_food could not return
C2_Witness ==
    /\ last[1] = "update"
    /\ last[2].snake.body[1] = last[2].food
    /\ Len(game.snake.body) >= 3
    /\ \E i \in 1..Len(game.snake.body) :
         /\ game.snake.body[i].x \in {1, game.width - 2}
         /\ game.snake.body[i].y \in {1, game.height - 2}

\* C3: after advance(ate_food) the body is the new head followed by the old body,
\* without its last element iff ate_food is false; the new head is the old head
\* shifted one unit in the direction in effect after the buffer is applied, a
\* decrement at coordinate 0 staying at 0; so the length is unchanged when ate_food
\* is false and one more when it is true. The increment of the call is in range.
C3_AdvanceBody ==
    last[1] = "advance" =>
        LET ate == last[2]
            before == last[3].snake
            grown == <<shifted(before.body[1], effective(before))>> \o before.body
        IN /\ game.snake.body = IF ate THEN grown ELSE front(grown)
           /\ Len(game.snake.body) = Len(before.body) + (IF ate THEN 1 ELSE 0)
           /\ ~move_forward_overflows(before)

\* C3 witness: the body [(10,7)] moving Right has become [(11,7)] by advance(false)
C3_Witness ==
    /\ last[1] = "advance"
    /\ last[2] = FALSE
    /\ last[3].snake.body = <<Point(10, 7)>>
    /\ last[3].snake.direction = "Right"
    /\ last[3].snake.next_direction = None
    /\ game.snake.body = <<Point(11, 7)>>

\* C4: a request for the opposite of the direction in effect leaves the buffer
\* (empty or not), the direction, the body, the food, the score and the terminal
\* flag as they were.
C4_ReverseDropped ==
    (last[1] = "request" /\ reverse(last[2], last[3].snake.direction)) => game = last[3]

\* C4 witness: a reverse request was made while the buffer held an earlier request
C4_Witness ==
    /\ last[1] = "request"
    /\ reverse(last[2], last[3].snake.direction)
    /\ last[3].snake.next_direction # None
    /\ last[3].snake.body = <<Point(5, 5), Point(4, 5), Point(3, 5)>>

\* C5: the buffered direction is never the opposite of the direction in effect, and
\* a step of the game never moves the head of a snake of two or more segments
\* onto the neck it had before the step.
C5_NoInstantReversal ==
    /\ [](~reverse(game.snake.next_direction, game.snake.direction))
    /\ [][(last'[1] = "step" /\ game'.snake.body # game.snake.body
             /\ Len(game.snake.body) >= 2)
           => game'.snake.body[1] # game.snake.body[2]]_vars

\* C5 witness: a snake of two segments has advanced after a turn was buffered, and
\* another request is in the buffer
C5_Witness ==
    /\ last = <<"step", FALSE>>
    /\ Len(game.snake.body) >= 2
    /\ game.snake.direction \in {"Up", "Down"}
    /\ game.snake.body[2].x = game.snake.body[1].x
    /\ game.snake.next_direction \in {"Left", "Right"}

\* the requests of a list that were not the opposite of direction d
accepted(reqs, d) == SelectSeq(reqs, LAMBDA r : ~reverse(r, d))

\* C6: an advance moves in the latest request made since the previous one that was
\* not the opposite of the direction then in effect, in the unchanged direction if
\* there was none, and leaves the buffer empty.
C6_LastRequestWins ==
    last[1] = "advance" =>
        LET before == last[3].snake
            acc == accepted(last[4], before.direction)
            dir == IF acc = <<>> THEN before.direction ELSE acc[Len(acc)]
        IN /\ game.snake.direction = dir
           /\ game.snake.next_direction = None
           /\ game.snake.body[1] = shifted(before.body[1], dir)

\* C6 witness: two opposite requests, both across the direction in effect, were made
\* and the snake moved in the second
C6_Witness ==
    /\ last[1] = "advance"
    /\ Len(last[4]) = 2
    /\ reverse(last[4][1], last[4][2])
    /\ ~reverse(last[4][1], last[3].snake.direction)
    /\ game.snake.direction = last[4][2]

\* C7: a step sets the terminal flag if the head it ends with is on the border ring
\* or on another segment of the body, and leaves the flag as it was otherwise.
C7_TerminalIffHit ==
    last[1] = "update" =>
        /\ hit(game) => game.game_over
        /\ ~hit(game) => game.game_over = last[2].game_over

\* C7 witness: a growing step moved the head into the cell of the tail, which
\* stayed, and set the flag
C7_Witness ==
    /\ last[1] = "update"
    /\ last[2].snake.body[1] = last[2].food
    /\ Len(last[2].snake.body) >= 4
    /\ game.snake.body[1] = last[2].snake.body[Len(last[2].snake.body)]
    /\ ~last[2].game_over
    /\ game.game_over

\* C8: a step that starts with the head on the food adds 1 to the score and one
\* segment to the body and puts the food off the grown body; any other step
\* leaves the score and the food as they were.
C8_EatOrNot ==
    last[1] = "update" =>
        IF last[2].snake.body[1] = last[2].food
        THEN /\ game.score = last[2].score + 1
             /\ Len(game.snake.body) = Len(last[2].snake.body) + 1
             /\ \A i \in 1..Len(game.snake.body) : game.snake.body[i] # game.food
        ELSE /\ game.score = last[2].score
             /\ game.food = last[2].food

\* C8 witness: the head was on the food at (7,7) with score 0, and the step made
\* the score 1 and the body two segments long
C8_Witness ==
    /\ last[1] = "update"
    /\ last[2].food = Point(7, 7)
    /\ last[2].snake.body = <<Point(7, 7)>>
    /\ last[2].score = 0
    /\ game.score = 1
    /\ Len(game.snake.body) = 2
    /\ game.food # Point(7, 7)

\* C9 as the specification states it: once the terminal flag is true, the body,
\* the direction, the food and the score stay as they are for as long as it is
\* true, that is until a reset.
C9_NoStepOnceOver ==
    [][(game.game_over /\ game'.game_over)
       => /\ game'.snake.body = game.snake.body
          /\ game'.snake.direction = game.snake.direction
          /\ game'.food = game.food
          /\ game'.score = game.score]_vars

\* C10 as the specification states it: the terminal flag becomes true only in a
\* step that ends with the head on the border ring or on another segment, and a
\* quit leaves the terminal flag and every other field of the game as they were.
C10_OnlyStepsEndGame ==
    [][/\ (~game.game_over /\ game'.game_over) => (last'[1] = "step" /\ hit(game'))
       /\ (last'[1] = "quit" /\ last[1] # "quit") => game' = game]_vars

\* C10, amended: the terminal flag becomes true only in a step that ends with the
\* head on the border ring or on another segment, or by a quit; a quit sets the
\* terminal flag of the game and changes no other field of it.
C10_StepOrQuitEndsGame ==
    [][/\ (~game.game_over /\ game'.game_over)
          => \/ (last'[1] = "step" /\ hit(game'))
             \/ last'[1] = "quit"
       /\ (last'[1] = "quit" /\ last[1] # "quit")
          => game' = [game EXCEPT !.game_over = TRUE]]_vars

\* C10 witness: a quit has set the terminal flag of a game whose snake has moved
\* and hit nothing, and the loop has not ended yet
C10_Witness ==
    /\ last = <<"quit">>
    /\ pc = "running"
    /\ game.game_over
    /\ ~hit(game)
    /\ game.snake.body # Snake_new(game.width, game.height).body

\* C11: no step and no direction request changes the terminal flag from true to
\* false; the flag becomes false only by a reset or by the construction of a new
\* game, which makes the score 0, the snake the starting snake and places the food.
C11_TerminalAbsorbing ==
    [][(game.game_over /\ ~game'.game_over)
       => /\ last'[1] \in {"reset", "new"}
          /\ game'.score = 0
          /\ game'.snake.body = <<Point(game'.width \div 2, game'.height \div 2)>>
          /\ game'.snake.direction = "Right"
          /\ game'.snake.next_direction = None
          /\ inside(game'.food, game')
          /\ game'.food # game'.snake.body[1]]_vars

\* C11 witness: a reset has made a running game of a game that was over
C11_Witness ==
    /\ last = <<"reset">>
    /\ pc = "running"
    /\ ~game.game_over
    /\ game.score = 0

\* C12: a pass of the run loop steps exactly when now - last_update has reached
\* the frame duration; a pass that steps sets last_update to now; so a step comes
\* at least one frame duration after the previous step, the construction or the
\* reset, also after a stall of several frame durations.
C12_FrameTiming ==
    /\ last[1] = "step" =>
          /\ last[3] >= FrameMillis
          /\ last[4] >= FrameMillis
          /\ elapsed = 0
    /\ last[1] = "idle" =>
          /\ last[2] < FrameMillis
          /\ last[3] = last[2]
          /\ elapsed = last[2]
    /\ last[1] \in {"new", "reset"} => elapsed = 0

\* C12 witness: a step taken after a stall of at least three frame durations
C12_Witness ==
    /\ last[1] = "step"
    /\ last[3] >= 3 * FrameMillis
    /\ elapsed = 0

\* C13: whatever the state reset is called on, it leaves the state a new game has
\* on the same board: one segment at (width/2, height/2), direction Right, no
\* buffered direction, score 0, not over, the food inside the border and off the
\* snake, the clock restarted, width and height as they were.
C13_ResetIsFresh ==
    last[1] = "reset" =>
        /\ game.width = last[2]
        /\ game.height = last[3]
        /\ game.snake.body = <<Point(last[2] \div 2, last[3] \div 2)>>
        /\ game.snake.direction = "Right"
        /\ game.snake.next_direction = None
        /\ game.score = 0
        /\ ~game.game_over
        /\ inside(game.food, game)
        /\ game.food # game.snake.body[1]
        /\ elapsed = 0
        /\ game = [snake |-> [body |-> <<Point(last[2] \div 2, last[3] \div 2)>>,
                               direction |-> "Right",
                               next_direction |-> None],
                    food |-> game.food, score |-> 0, game_over |-> FALSE,
                    width |-> last[2], height |-> last[3]]

\* C13 witness: a reset of a game that was over, with a score and a buffered turn
C13_Witness ==
    /\ last[1] = "reset"
    /\ last[4] > 0
    /\ last[5]
    /\ last[6] # None
    /\ game.score = 0
    /\ ~game.game_over

\* C14: the body has score + 1 segments in every state, so it is never empty; the
\* score changes only by a step that adds 1 to it or by a reset or a new game
\* that makes it 0.
C14_LengthIsScorePlusOne ==
    /\ [](Len(game.snake.body) = game.score + 1)
    /\ [][game'.score # game.score
           => \/ last'[1] = "step" /\ game'.score = game.score + 1
              \/ last'[1] \in {"reset", "new"} /\ game'.score = 0]_vars

\* C14 witness: a step has eaten, the score is 1 and the body has two segments
C14_Witness ==
    /\ last = <<"step", TRUE>>
    /\ game.score = 1
    /\ Len(game.snake.body) = 2

\* no point occurs twice in the body
distinct(body) == \A i, j \in 1..Len(body) : i # j => body[i] # body[j]

\* C15: in every state whose game_over is false the points of the body are
\* pairwise distinct; a body with a duplicate is the result of a step that left
\* game_over true.
C15_DistinctWhileRunning ==
    /\ ~game.game_over => distinct(game.snake.body)
    /\ (last[1] = "update" /\ ~distinct(game.snake.body))
          => game.game_over /\ distinct(last[2].snake.body)

\* C15 witness: a step of a running game has put the head on another segment
C15_Witness ==
    /\ last[1] = "update"
    /\ ~last[2].game_over
    /\ ~distinct(game.snake.body)
    /\ game.game_over

\* every cell strictly inside the border is on the body
covered(g) ==
    \A cx \in 1..(g.width - 2), cy \in 1..(g.height - 2) :
        \E i \in 1..Len(g.snake.body) : g.snake.body[i] = [x |-> cx, y |-> cy]

\* C16: place_food has no limit on its passes: with fair sampling it returns, with
\* the food on a free cell inside the border, whenever such a cell exists; when
\* the body covers every cell inside the border it stays in its loop for ever and
\* can always sample again.
C16_PlaceFoodLoops ==
    /\ (pc = "placing" /\ ~covered(game))
          ~> (pc = "placed" /\ inside(game.food, game)
                /\ \A i \in 1..Len(game.snake.body) : game.snake.body[i] # game.food)
    /\ [](covered(game) => pc = "placing" /\ ENABLED NextFood)

\* C16 witness: the loop has returned for a snake that left one cell free, after
\* it was entered with the food under the neck
C16_Witness ==
    /\ pc = "placed"
    /\ Len(game.snake.body) = (game.width - 2) * (game.height - 2) - 1
    /\ game.food # game.snake.body[2]
    /\ inside(game.food, game)

\* C17 as the specification states it: for every display size, a display of no
\* rows included, Game::new computes width = max(w, 20) and height = max(h - 1, 10)
\* without underflow, so that width >= 20 and height >= 10.
C17_BoardClamped ==
    last[1] \in {"new", "new_panic"} =>
        /\ pc # "panicked"
        /\ game.width = (IF last[2] >= 20 THEN last[2] ELSE 20)
        /\ game.height = (IF last[3] - 1 >= 10 THEN last[3] - 1 ELSE 10)
        /\ game.width >= 20
        /\ game.height >= 10

\* C18: whenever the run loop can call a step, every segment is strictly inside
\* the border, so the step moves the head by exactly one cell, with no clamping
\* at 0 and no 16-bit overflow; a segment on the border ring is the head, in a
\* state the step left with game_over true and the loop finished.
C18_InsideWhileRunning ==
    /\ [](pc = "running" =>
             \A i \in 1..Len(game.snake.body) : inside(game.snake.body[i], game))
    /\ [](\A i \in 1..Len(game.snake.body) :
             ~inside(game.snake.body[i], game)
                => i = 1 /\ game.game_over /\ pc \in {"game_over", "exited", "panicked"})
    /\ [][(last'[1] = "step" /\ game'.snake.body # game.snake.body)
           => LET old == game.snake.body[1]
                  new == game'.snake.body[1]
              IN /\ old.x >= 1 /\ old.y >= 1
                 /\ old.x + 1 < U16 /\ old.y + 1 < U16
                 /\ \/ new.y = old.y /\ (new.x = old.x - 1 \/ new.x = old.x + 1)
                    \/ new.x = old.x /\ (new.y = old.y - 1 \/ new.y = old.y + 1)]_vars

\* C18 witness: a step has moved the head onto the left edge and ended the game
C18_Witness ==
    /\ last[1] = "step"
    /\ game.snake.body[1].x = 0
    /\ game.game_over
    /\ pc = "game_over"

\* C19: the food is never on a segment behind the head; it is under the head only
\* from the step that moved the head onto it, the food staying where it was, until
\* the next step, which puts the food on a cell off the body.
C19_FoodOnlyUnderHead ==
    /\ [](\A i \in 2..Len(game.snake.body) : game.snake.body[i] # game.food)
    /\ [][game'.snake.body[1] = game'.food
           => \/ /\ game.snake.body[1] = game.food
                 /\ game'.snake.body = game.snake.body
                 /\ game'.food = game.food
              \/ /\ last'[1] = "step"
                 /\ game'.snake.body # game.snake.body
                 /\ game'.food = game.food]_vars
    /\ [][(/\ last'[1] = "step"
            /\ game'.snake.body # game.snake.body
            /\ game.snake.body[1] = game.food)
           => /\ game'.food # game.food
              /\ \A i \in 1..Len(game'.snake.body) : game'.snake.body[i] # game'.food]_vars

\* C19 witness: the food is under the head while the loop waits for the next step
C19_Witness ==
    /\ last = <<"idle">>
    /\ pc = "running"
    /\ game.snake.body[1] = game.food

\* C20: the body is a connected path: two consecutive segments differ by exactly
\* 1 in exactly one coordinate, whatever requests and growing or non-growing steps
\* came before.
C20_BodyConnected ==
    \A i \in 1..(Len(game.snake.body) - 1) :
        LET p == game.snake.body[i]
            q == game.snake.body[i + 1]
        IN \/ p.x = q.x /\ (p.y - q.y = 1 \/ q.y - p.y = 1)
           \/ p.y = q.y /\ (p.x - q.x = 1 \/ q.x - p.x = 1)

\* C20 witness: a snake of two segments has turned and moved on without growing
C20_Witness ==
    /\ last = <<"step", FALSE>>
    /\ Len(game.snake.body) = 2
    /\ game.snake.direction \in {"Up", "Down"}
    /\ game.snake.body[1].x = game.snake.body[2].x
    /\ game.snake.body[1] # game.food

====
